---- MODULE Spec2Model ----
(***************************************************************************)
(* Model of composio/tools/base/abs.py: declaration of Action types        *)
(* (ActionMeta / ActionBuilder), Tool metadata and registration            *)
(* (ToolBuilder / Tool.register), the three registries, memoised           *)
(* Action.schema(), and the request/response contract helpers.             *)
(*                                                                         *)
(* Python strings that the code transforms (upper(), underscore(),         *)
(* concatenation) are sequences of ASCII codes.  An attribute that may be  *)
(* unset is a sequence of length 0 (unset) or 1 (set): None / Some(v).     *)
(***************************************************************************)
EXTENDS Integers, Sequences, FiniteSets, TLC

None == <<>>
Some(v) == <<v>>
IsSet(o) == Len(o) = 1
Val(o) == o[1]

(***************************************************************************)
(* Characters and the str methods the code uses.                           *)
(***************************************************************************)
IsUpperCh(c) == c \in 65..90
IsLowerCh(c) == c \in 97..122
IsDigitCh(c) == c \in 48..57
IsSpaceCh(c) == c \in {32, 9, 10, 11, 12, 13}

UpperCh(c) == IF IsLowerCh(c) THEN c - 32 ELSE c
LowerCh(c) == IF IsUpperCh(c) THEN c + 32 ELSE c

\* str.upper()
Upper(s) == [i \in 1..Len(s) |-> UpperCh(s[i])]
\* str.lower()
Lower(s) == [i \in 1..Len(s) |-> LowerCh(s[i])]

RECURSIVE LStrip(_)
\* str.lstrip()
LStrip(s) == IF s # <<>> /\ IsSpaceCh(Head(s)) THEN LStrip(Tail(s)) ELSE s

RECURSIVE RStrip(_)
\* str.rstrip()
RStrip(s) ==
    IF s # <<>> /\ IsSpaceCh(s[Len(s)]) THEN RStrip(SubSeq(s, 1, Len(s) - 1)) ELSE s

\* the "_" of the f-string f"{obj.enum}_{action.name.upper()}"
Sep == <<95>>

(***************************************************************************)
(* inflection.underscore: re.sub(r"([A-Z]+)([A-Z][a-z])", r"\1_\2"), then  *)
(* re.sub(r"([a-z\d])([A-Z])", r"\1_\2"), then "-" -> "_", then lower().   *)
(***************************************************************************)
RECURSIVE AcronymRule(_, _)
\* first substitution: "_" goes before the last capital of a run of capitals
\* that a lower-case letter follows (s[i-1], s[i] capitals, s[i+1] lower)
AcronymRule(s, i) ==
    IF i > Len(s) THEN <<>>
    ELSE (IF /\ i > 1
             /\ i < Len(s)
             /\ IsUpperCh(s[i - 1])
             /\ IsUpperCh(s[i])
             /\ IsLowerCh(s[i + 1])
          THEN <<95, s[i]>>
          ELSE <<s[i]>>) \o AcronymRule(s, i + 1)

RECURSIVE CamelRule(_, _)
\* second substitution: "_" goes between a lower-case letter or digit and a
\* capital
CamelRule(s, i) ==
    IF i > Len(s) THEN <<>>
    ELSE (IF /\ i > 1
             /\ (IsLowerCh(s[i - 1]) \/ IsDigitCh(s[i - 1]))
             /\ IsUpperCh(s[i])
          THEN <<95, s[i]>>
          ELSE <<s[i]>>) \o CamelRule(s, i + 1)

DashToUnderscore(s) == [i \in 1..Len(s) |-> IF s[i] = 45 THEN 95 ELSE s[i]]

Underscore(s) == Lower(DashToUnderscore(CamelRule(AcronymRule(s, 1), 1)))

(***************************************************************************)
(* inflection.humanize: drop a trailing "_id", "_" -> " ", lower-case the  *)
(* alphanumeric runs, capitalise the first character.                      *)
(***************************************************************************)
DropIdSuffix(s) ==
    IF Len(s) >= 3 /\ SubSeq(s, Len(s) - 2, Len(s)) = <<95, 105, 100>>
    THEN SubSeq(s, 1, Len(s) - 3)
    ELSE s

UnderscoreToSpace(s) == [i \in 1..Len(s) |-> IF s[i] = 95 THEN 32 ELSE s[i]]

CapFirst(s) == IF s = <<>> THEN s ELSE <<UpperCh(Head(s))>> \o Tail(s)

Humanize(s) == CapFirst(Lower(UnderscoreToSpace(DropIdSuffix(s))))

(***************************************************************************)
(* Strings of the modelled programs.                                       *)
(***************************************************************************)
\* "Action"
S_Action == <<65, 99, 116, 105, 111, 110>>
\* "CreateIssue"
S_CreateIssue == <<67, 114, 101, 97, 116, 101, 73, 115, 115, 117, 101>>
\* "createIssue"
S_createIssue == <<99, 114, 101, 97, 116, 101, 73, 115, 115, 117, 101>>
\* "HTTPGet"
S_HTTPGet == <<72, 84, 84, 80, 71, 101, 116>>
\* "create_issue"
S_create_issue == <<99, 114, 101, 97, 116, 101, 95, 105, 115, 115, 117, 101>>
\* "GitHub"
S_GitHub == <<71, 105, 116, 72, 117, 98>>
\* "Git_Hub"
S_Git_Hub == <<71, 105, 116, 95, 72, 117, 98>>
\* " Doc. "
S_Doc == <<32, 68, 111, 99, 46, 32>>
\* "  " (whitespace only)
S_Blank == <<32, 32>>

(***************************************************************************)
(* Bounds of the model.                                                    *)
(***************************************************************************)
\* how many times ToolBuilder.setup_children runs over one action class
MaxSetups == 2
\* how many times Tool.register is called in a run
MaxRegisters == 2
\* how many schema documents are built for one class in a run
MaxDocuments == 2

ClassIds == {"A1", "A2"}
ToolIds == {"T1", "T2"}
TriggerIds == {"G1"}

(***************************************************************************)
(* Types that can stand as a generic argument: the three TypeVars of the   *)
(* module (lines 21-23) and two concrete pydantic models.                  *)
(***************************************************************************)
TypeVars == {"ActionRequest", "ActionResponse", "ModelType"}
ConcreteTypes == {"Req", "Resp"}

\* class Action(WithLogger, _Attributes, t.Generic[ActionRequest, ActionResponse])
RootClass == "Action"
ActionOrigBases ==
    << [origin |-> "WithLogger", args |-> <<>>],
       [origin |-> "_Attributes", args |-> <<>>],
       [origin |-> "Generic", args |-> <<"ActionRequest", "ActionResponse">>] >>

\* what getattr finds on Action itself: execute is abstract, _schema is None,
\* the annotated attributes (name, enum, tool, ...) do not exist
RootAttrs ==
    [ execute |-> Some("abstract"),
      orig_bases |-> Some(ActionOrigBases),
      name |-> None, enum |-> None, display_name |-> None,
      description |-> None, tool |-> None,
      request |-> None, response |-> None, schema |-> None ]

\* a class id with no class object behind it
NoClass(st) ==
    [ state |-> st, abs |-> FALSE, pyname |-> <<>>, parent |-> RootClass,
      doc |-> None, execute |-> None, orig_bases |-> None,
      name |-> None, enum |-> None, display_name |-> None,
      description |-> None, tool |-> None,
      request |-> None, response |-> None, schema |-> None ]

RECURSIVE GetAttr(_, _, _)
\* getattr(cls, f): the class's own attribute, else its base's (the MRO)
GetAttr(cs, c, f) ==
    IF c = RootClass THEN RootAttrs[f]
    ELSE IF IsSet(cs[c][f]) THEN cs[c][f]
    ELSE GetAttr(cs, cs[c].parent, f)

\* getattr(cls, f, default)
GetAttrOr(cs, c, f, default) ==
    IF IsSet(GetAttr(cs, c, f)) THEN Val(GetAttr(cs, c, f)) ELSE default

(***************************************************************************)
(* Class statements the model declares.  generic = Some(<<t1, t2>>) is     *)
(* "class C(P[t1, t2])", None is "class C(P)"; mixin adds a second generic *)
(* base; execute is what the class body defines.                           *)
(***************************************************************************)
GenericForms ==
    { <<"Req", "Resp">>, <<"ActionRequest", "ActionResponse">>,
      <<"Req", "ActionResponse">>, <<"ActionResponse", "ActionRequest">> }

WellFormed(pyname, doc) ==
    [pyname |-> pyname, abs |-> FALSE, generic |-> Some(<<"Req", "Resp">>),
     mixin |-> FALSE, execute |-> Some("concrete"), name |-> None, doc |-> doc]

ActionDecls(c) ==
    \* a well-formed concrete action; the two classes derive the same name
    { IF c = "A1" THEN WellFormed(S_CreateIssue, Some(S_Doc))
      ELSE WellFormed(S_createIssue, None) }
    \cup
    (IF c = "A1"
     THEN
       \* concrete execute, the other generic forms, with and without a
       \* second base
       { [pyname |-> S_HTTPGet, abs |-> FALSE, generic |-> Some(g),
          mixin |-> m, execute |-> Some("concrete"), name |-> None,
          doc |-> None] :
            g \in GenericForms \ {<<"Req", "Resp">>}, m \in BOOLEAN }
       \cup
       \* execute left abstract, and an abstract helper base (abs=True)
       { [pyname |-> S_HTTPGet, abs |-> a, generic |-> Some(<<"Req", "Resp">>),
          mixin |-> FALSE, execute |-> None, name |-> None, doc |-> None] :
            a \in BOOLEAN }
     ELSE
       \* no generic base at all; execute defined or inherited
       { [pyname |-> S_HTTPGet, abs |-> FALSE, generic |-> None,
          mixin |-> FALSE, execute |-> e, name |-> None, doc |-> None] :
            e \in {None, Some("concrete")} }
       \cup
       \* a subclass that is itself named "Action"
       { [pyname |-> S_Action, abs |-> FALSE, generic |-> None,
          mixin |-> FALSE, execute |-> None, name |-> None, doc |-> None] })

(***************************************************************************)
(* ActionBuilder (lines 177-222) and ActionMeta.__init__ (lines 228-242).  *)
(* Each step maps the class table to [raised, cs].                         *)
(***************************************************************************)
\* the class object Python builds from the class statement, before
\* ActionMeta.__init__ runs
NewClass(d, p) ==
    [ NoClass("declared") EXCEPT
        !.abs = d.abs, !.pyname = d.pyname, !.parent = p, !.doc = d.doc,
        !.execute = d.execute, !.name = d.name,
        !.orig_bases =
            IF ~IsSet(d.generic) THEN None
            ELSE Some(<<[origin |-> p, args |-> Val(d.generic)]>>
                      \o (IF d.mixin
                          THEN <<[origin |-> "Mixin", args |-> <<"Req">>]>>
                          ELSE <<>>)) ]

\* ActionBuilder.validate: TRUE iff it raises InvalidClassDefinition
ValidateRaises(cs, c) == Val(GetAttr(cs, c, "execute")) = "abstract"

\* ActionBuilder.set_generics: TRUE iff it raises InvalidClassDefinition
\* (the tuple unpackings raise ValueError, as does the TypeVar comparison)
GenericsPlaceholderCheck(request, response) ==
    request = "ActionRequest" \/ response = "ActionResponse"

SetGenericsRaises(cs, c) ==
    LET bases == Val(GetAttr(cs, c, "orig_bases")) IN
    \/ Len(bases) # 1
    \/ Len(bases[1].args) # 2
    \/ GenericsPlaceholderCheck(bases[1].args[1], bases[1].args[2])

\* ActionBuilder.set_generics, the two setattr calls
SetGenerics(cs, c) ==
    LET args == Val(GetAttr(cs, c, "orig_bases"))[1].args IN
    [cs EXCEPT ![c].request = Some(args[1]), ![c].response = Some(args[2])]

\* the description ActionBuilder.set_metadata / ToolBuilder.set_metadata store
DescriptionOf(doc, display_name) ==
    RStrip(LStrip(IF IsSet(doc) /\ Val(doc) # <<>> THEN Val(doc) ELSE display_name))

\* ActionBuilder.set_metadata
ActionSetMetadata(cs, c) ==
    LET snake == Underscore(cs[c].pyname)
        nm == GetAttrOr(cs, c, "name", snake)
        en == GetAttrOr(cs, c, "enum", Upper(snake))
        dn == GetAttrOr(cs, c, "display_name", Humanize(snake))
    IN [cs EXCEPT ![c].name = Some(nm),
                  ![c].enum = Some(en),
                  ![c].display_name = Some(dn),
                  ![c].description = Some(DescriptionOf(cs[c].doc, dn))]

\* ActionMeta.__init__
ActionMetaInit(cs, c) ==
    IF cs[c].abs \/ cs[c].pyname = S_Action THEN [raised |-> FALSE, cs |-> cs]
    ELSE IF ValidateRaises(cs, c) \/ SetGenericsRaises(cs, c)
    THEN [raised |-> TRUE, cs |-> cs]
    ELSE [raised |-> FALSE, cs |-> ActionSetMetadata(SetGenerics(cs, c), c)]

(***************************************************************************)
(* Tool classes.  A tool class statement may set gid, name and enum in its *)
(* body and defines actions() (and, optionally, triggers()).               *)
(***************************************************************************)
\* "on_push"
S_on_push == <<111, 110, 95, 112, 117, 115, 104>>

\* the name attribute of the trigger classes
TriggerName(g) == S_on_push

PresetGroups == {"runtime", "local", "api"}
\* a group id outside t.Literal["runtime", "local", "api"], which nothing
\* enforces at run time
CustomGroup == "custom"

EmptyMap == [k \in {} |-> k]
\* d[k] = v of a Python dict
Put(d, k, v) == [x \in (DOMAIN d) \cup {k} |-> IF x = k THEN v ELSE d[x]]

NoTool ==
    [ state |-> "undeclared", doc |-> None,
      gid |-> None, name |-> None, enum |-> None,
      display_name |-> None, description |-> None,
      actions |-> <<>>, actions_ |-> None, triggers_ |-> None ]

\* the __name__ of the two tool classes: "GitHub" and "Git_Hub"
ToolPyName(t) == IF t = "T1" THEN S_GitHub ELSE S_Git_Hub

\* hasattr(obj, "triggers"): only the first tool defines triggers()
HasTriggers(t) == t = "T1"

\* the lists a tool's actions() may return, over the declared action classes:
\* the first tool lists one action or all of them, the second lists one
ActionLists(t, declared) ==
    IF t = "T1"
    THEN { l \in {<<"A1">>, <<"A1", "A2">>} : \A i \in 1..Len(l) : l[i] \in declared }
    ELSE { <<a>> : a \in declared }

\* the class statements of the tools: the first may set name = "GitHub" and
\* then a group id of its own, the second keeps the defaults
ToolDecls(t, declared) ==
    { [name |-> ng[1], gid |-> ng[2], doc |-> None, actions |-> al] :
        ng \in IF t = "T1"
               THEN { <<None, None>>, <<Some(S_GitHub), None>>,
                      <<Some(S_GitHub), Some(CustomGroup)>> }
               ELSE { <<None, None>> },
        al \in ActionLists(t, declared) }

VARIABLES
    classes,           \* the Action subclasses: ClassIds -> class object
    tools,             \* the Tool subclasses: ToolIds -> class object
    triggers,          \* the trigger classes: TriggerIds -> [tool, enum]
    tool_registry,     \* line 29: gid -> enum -> Tool instance
    action_registry,   \* line 30: gid -> enum -> Action class
    trigger_registry,  \* line 31: gid -> enum -> trigger class
    instances,         \* number of Tool instances built by cls() so far
    generated,         \* ClassIds -> number of documents generated for the class
    returned,          \* ClassIds -> the documents schema() has returned
    tool_writes,       \* ClassIds -> number of assignments to the tool attribute
    parse_call,        \* a call of _Request.parse: its arguments and outcome
    compile_call,      \* a call of _Request.schema / _Response.schema
    id_call,           \* a call of generate_app_id: its argument and results
    threads            \* the threads that run register() or schema() at once

vars ==
    << classes, tools, triggers, tool_registry, action_registry,
       trigger_registry, instances, generated, returned, tool_writes,
       parse_call, compile_call, id_call, threads >>

\* no call of the contract helpers is under way
Idle == [pc |-> "idle"]

\* no thread is running
NoThreads == << >>

\* the variables of the helper calls and of the threads, which the
\* single-threaded registry operations leave alone
calls == << parse_call, compile_call, id_call, threads >>

InitRegistry ==
    /\ classes = [c \in ClassIds |-> NoClass("undeclared")]
    /\ tools = [t \in ToolIds |-> NoTool]
    /\ triggers = [g \in TriggerIds |-> [tool |-> None, enum |-> None]]
    /\ tool_registry = [g \in PresetGroups |-> EmptyMap]
    /\ action_registry = [g \in PresetGroups |-> EmptyMap]
    /\ trigger_registry = [g \in PresetGroups |-> EmptyMap]
    /\ instances = 0
    /\ generated = [c \in ClassIds |-> 0]
    /\ returned = [c \in ClassIds |-> {}]
    /\ tool_writes = [c \in ClassIds |-> 0]

Init ==
    /\ InitRegistry
    /\ parse_call = Idle
    /\ compile_call = Idle
    /\ id_call = Idle
    /\ threads = NoThreads

ClassOrder == [c \in ClassIds |-> IF c = "A1" THEN 1 ELSE 2]

DeclaredClasses == { c \in ClassIds : classes[c].state = "declared" }

(***************************************************************************)
(* class C(P...): the class statement of an Action subclass, which runs    *)
(* ActionMeta.__init__; when that raises, no class object is left.         *)
(***************************************************************************)
DeclareAction(c, d, p) ==
    /\ classes[c].state = "undeclared"
    \* the class statements run in the order of the ids
    /\ \A b \in ClassIds : ClassOrder[b] < ClassOrder[c] => classes[b].state # "undeclared"
    /\ p \in {RootClass} \cup DeclaredClasses
    \* only Action itself is subscripted here: class C(Action[t1, t2])
    /\ IsSet(d.generic) => p = RootClass
    /\ LET r == ActionMetaInit([classes EXCEPT ![c] = NewClass(d, p)], c) IN
         /\ classes' = IF r.raised
                       THEN [classes EXCEPT ![c] = NoClass("rejected")]
                       ELSE r.cs
    /\ UNCHANGED << tools, triggers, tool_registry, action_registry,
                    trigger_registry, instances, generated,
                    returned, tool_writes,
                    calls >>

\* class T(Tool): the class statement of a Tool subclass (no metaclass hook
\* in this module: Tool.__init_subclass__ does nothing)
DeclareTool(t, d) ==
    /\ tools[t].state = "undeclared"
    /\ tools' = [tools EXCEPT ![t] =
                   [NoTool EXCEPT !.state = "declared", !.name = d.name,
                                  !.gid = d.gid, !.doc = d.doc,
                                  !.actions = d.actions]]
    /\ UNCHANGED << classes, triggers, tool_registry, action_registry,
                    trigger_registry, instances, generated,
                    returned, tool_writes,
                    calls >>

\* ToolBuilder.set_metadata
ToolSetMetadataOf(tl, pyname) ==
    LET gid == IF IsSet(tl.gid) THEN Val(tl.gid) ELSE "local"
        nm == IF IsSet(tl.name) THEN Val(tl.name) ELSE Underscore(pyname)
        en == Upper(IF IsSet(tl.enum) THEN Val(tl.enum) ELSE nm)
        dn == IF IsSet(tl.display_name) THEN Val(tl.display_name)
              ELSE Humanize(Underscore(pyname))
    IN [tl EXCEPT !.gid = Some(gid), !.name = Some(nm), !.enum = Some(en),
                  !.display_name = Some(dn),
                  !.description = Some(DescriptionOf(tl.doc, dn)),
                  !.actions_ = IF IsSet(tl.actions_) THEN tl.actions_
                               ELSE Some(EmptyMap),
                  !.triggers_ = IF IsSet(tl.triggers_) THEN tl.triggers_
                                ELSE Some(EmptyMap)]

ToolSetMetadata(t) ==
    /\ tools[t].state = "declared"
    /\ ~IsSet(tools[t].actions_)
    /\ tools' = [tools EXCEPT ![t] = ToolSetMetadataOf(tools[t], ToolPyName(t))]
    /\ UNCHANGED << classes, triggers, tool_registry, action_registry,
                    trigger_registry, instances, generated,
                    returned, tool_writes,
                    calls >>

(***************************************************************************)
(* ToolBuilder.setup_children (lines 350-371).  The loops thread           *)
(* st = [raised, cs, writes, own, reg]: an AttributeError leaves what was  *)
(* assigned before it in place.  setup_children and register are called on *)
(* a tool class after ToolBuilder.set_metadata has given it gid, name,     *)
(* enum and _actions.                                                      *)
(***************************************************************************)
\* f"{obj.enum}_{action.name.upper()}"
NamespacedEnum(tool_enum, child_name) == tool_enum \o Sep \o Upper(child_name)

\* lines 356-359 for one action
SetupAction(st, tl, a) ==
    IF ~IsSet(tl.name) THEN [st EXCEPT !.raised = TRUE]
    ELSE
      LET cs1 == [st.cs EXCEPT ![a].tool = tl.name]
          w1 == [st.writes EXCEPT ![a] = @ + 1]
          st1 == [st EXCEPT !.cs = cs1, !.writes = w1]
      IN IF ~IsSet(tl.enum) \/ ~IsSet(GetAttr(cs1, a, "name"))
         THEN [st1 EXCEPT !.raised = TRUE]
         ELSE
           LET en == NamespacedEnum(Val(tl.enum), Val(GetAttr(cs1, a, "name")))
               st2 == [st1 EXCEPT !.cs[a].enum = Some(en)]
           IN IF ~IsSet(st.own) THEN [st2 EXCEPT !.raised = TRUE]
              ELSE [st2 EXCEPT
                      !.own = Some(Put(Val(st.own), en, a)),
                      !.reg[Val(tl.gid)] = Put(@, en, a)]

RECURSIVE ActionLoop(_, _, _)
\* for action in obj.actions(): ...
ActionLoop(st, tl, list) ==
    IF st.raised \/ list = <<>> THEN st
    ELSE ActionLoop(SetupAction(st, tl, Head(list)), tl, Tail(list))

\* lines 368-371 for one trigger; here st.cs is the trigger table
SetupTrigger(st, tl, g) ==
    IF ~IsSet(tl.name) THEN [st EXCEPT !.raised = TRUE]
    ELSE
      LET st1 == [st EXCEPT !.cs[g].tool = tl.name]
      IN IF ~IsSet(tl.enum) THEN [st1 EXCEPT !.raised = TRUE]
         ELSE
           LET en == NamespacedEnum(Val(tl.enum), TriggerName(g))
               st2 == [st1 EXCEPT !.cs[g].enum = Some(en)]
           IN IF ~IsSet(st.own) THEN [st2 EXCEPT !.raised = TRUE]
              ELSE [st2 EXCEPT
                      !.own = Some(Put(Val(st.own), en, g)),
                      !.reg[Val(tl.gid)] = Put(@, en, g)]

RECURSIVE TriggerLoop(_, _, _)
\* for trigger in obj.triggers(): ...
TriggerLoop(st, tl, list) ==
    IF st.raised \/ list = <<>> THEN st
    ELSE TriggerLoop(SetupTrigger(st, tl, Head(list)), tl, Tail(list))

\* if obj.gid not in registry: registry[obj.gid] = {}
EnsureGroup(reg, gid) ==
    IF gid \in DOMAIN reg THEN reg ELSE Put(reg, gid, EmptyMap)

\* the triggers() of a tool that has the method
TriggerList(tl) == <<"G1">>

\* the body of setup_children on the current state: what it leaves behind
\* and whether it raised
SetupChildrenRun(t) ==
    LET tl == tools[t]
        a == ActionLoop([raised |-> FALSE, cs |-> classes,
                         writes |-> tool_writes, own |-> tl.actions_,
                         reg |-> EnsureGroup(action_registry, Val(tl.gid))],
                        tl, tl.actions)
        g == IF ~a.raised /\ HasTriggers(t)
             THEN TriggerLoop([raised |-> FALSE, cs |-> triggers,
                               own |-> tl.triggers_,
                               reg |-> EnsureGroup(trigger_registry,
                                                   Val(tl.gid))],
                              tl, TriggerList(tl))
             ELSE [raised |-> FALSE, cs |-> triggers,
                   own |-> tl.triggers_, reg |-> trigger_registry]
    IN [raised |-> a.raised \/ g.raised, a |-> a, g |-> g]

setup_children(t) ==
    /\ tools[t].state = "declared"
    /\ IsSet(tools[t].actions_)
    /\ \A i \in 1..Len(tools[t].actions) :
          tool_writes[tools[t].actions[i]] < MaxSetups
    /\ LET r == SetupChildrenRun(t) IN
         /\ classes' = r.a.cs
         /\ tool_writes' = r.a.writes
         /\ action_registry' = r.a.reg
         /\ triggers' = r.g.cs
         /\ trigger_registry' = r.g.reg
         /\ tools' = [tools EXCEPT ![t].actions_ = r.a.own,
                                   ![t].triggers_ = r.g.own]
    /\ UNCHANGED << tool_registry, instances, generated, returned,
                    calls >>

(***************************************************************************)
(* Tool.register (lines 450-456).                                          *)
(***************************************************************************)
\* mutation: the instance is stored under the lower-cased enum
RegisterInsert_LowerKey(reg, gid, enum, inst) ==
    [reg EXCEPT ![gid] = Put(@, Lower(enum), inst)]

\* tool_registry[cls.gid][cls.enum] = cls()
RegisterInsert(reg, gid, enum, inst) == [reg EXCEPT ![gid] = Put(@, enum, inst)]

register(t) ==
    /\ tools[t].state = "declared"
    /\ IsSet(tools[t].actions_)
    /\ instances < MaxRegisters
    /\ instances' = instances + 1
    /\ tool_registry' =
         RegisterInsert(EnsureGroup(tool_registry, Val(tools[t].gid)),
                        Val(tools[t].gid), Val(tools[t].enum),
                        [cls |-> t, id |-> instances + 1])
    /\ UNCHANGED << classes, tools, triggers, action_registry,
                    trigger_registry, generated, returned, tool_writes,
                    calls >>

(***************************************************************************)
(* Action._generate_schema and Action.schema (lines 283-308).              *)
(***************************************************************************)
IsWordCh(c) == IsUpperCh(c) \/ IsLowerCh(c) \/ IsDigitCh(c) \/ c = 95

\* inflection.titleize: re.sub(r"\b('?\w)", upper, humanize(underscore(word)))
TitleCase(s) ==
    [i \in 1..Len(s) |->
        IF /\ IsWordCh(s[i])
           /\ \/ i = 1
              \/ ~IsWordCh(s[i - 1]) /\ ~(s[i - 1] = 39 /\ i > 2 /\ IsWordCh(s[i - 2]))
              \/ s[i - 1] = 39 /\ i > 2 /\ IsWordCh(s[i - 2])
        THEN UpperCh(s[i])
        ELSE s[i]]

Titleize(word) == TitleCase(Humanize(Underscore(word)))

\* the attributes _generate_schema reads with plain attribute access
SchemaInputs == {"name", "enum", "tool", "display_name", "request", "response"}

\* TRUE iff _generate_schema raises AttributeError
GenerateSchemaRaises(cs, c) ==
    \E f \in SchemaInputs : ~IsSet(GetAttr(cs, c, f))

\* the dict _generate_schema builds; id is the identity of the new object
SchemaDocument(cs, c, id) ==
    [ id |-> id,
      name |-> Val(GetAttr(cs, c, "name")),
      enum |-> Val(GetAttr(cs, c, "enum")),
      appName |-> Val(GetAttr(cs, c, "tool")),
      displayName |-> Val(GetAttr(cs, c, "display_name")),
      description |->
          IF IsSet(cs[c].doc) /\ Val(cs[c].doc) # <<>>
          THEN RStrip(LStrip(Val(cs[c].doc)))
          ELSE Titleize(Val(GetAttr(cs, c, "display_name"))) ]

\* mutation: the cache is never consulted
SchemaIsNone_Always(cs, c) == TRUE

\* if cls._schema is None
SchemaIsNone(cs, c) == ~IsSet(GetAttr(cs, c, "schema"))

\* Action.schema on the current state: the class table it leaves and what it
\* returns (None when _generate_schema raised)
SchemaRun(c) ==
    IF SchemaIsNone(classes, c)
    THEN IF GenerateSchemaRaises(classes, c)
         THEN [cs |-> classes, ret |-> None, built |-> FALSE]
         ELSE LET doc == SchemaDocument(classes, c, <<c, generated[c] + 1>>)
              IN [cs |-> [classes EXCEPT ![c].schema = Some(doc)],
                  ret |-> Some(doc), built |-> TRUE]
    ELSE [cs |-> classes, ret |-> GetAttr(classes, c, "schema"), built |-> FALSE]

schema(c) ==
    /\ classes[c].state = "declared"
    /\ generated[c] < MaxDocuments
    /\ LET r == SchemaRun(c) IN
         /\ classes' = r.cs
         /\ generated' = [generated EXCEPT ![c] = IF r.built THEN @ + 1 ELSE @]
         /\ returned' = [returned EXCEPT ![c] =
                           IF IsSet(r.ret) THEN @ \cup {Val(r.ret).id} ELSE @]
    /\ UNCHANGED << tools, triggers, tool_registry, action_registry,
                    trigger_registry, instances, tool_writes,
                    calls >>

(***************************************************************************)
(* The program: any order of class statements and calls.                   *)
(***************************************************************************)
Next ==
    \/ \E c \in ClassIds, p \in {RootClass} \cup ClassIds :
          \E d \in ActionDecls(c) : DeclareAction(c, d, p)
    \/ \E t \in ToolIds : \E d \in ToolDecls(t, DeclaredClasses) : DeclareTool(t, d)
    \/ \E t \in ToolIds : ToolSetMetadata(t)
    \/ \E t \in ToolIds : setup_children(t)
    \/ \E t \in ToolIds : register(t)
    \/ \E c \in ClassIds : schema(c)

Spec == Init /\ [][Next]_vars

(***************************************************************************)
(* Declarations alone, with every kind of docstring: none, the empty       *)
(* string, whitespace only, and text with whitespace around it.            *)
(***************************************************************************)
DocStrings == { None, Some(<< >>), Some(S_Blank), Some(S_Doc) }

\* class CreateIssue(Action[Req, Resp]) for the first class; for the second,
\* class HTTPGet(Action[Req, Resp]) or class HTTPGet(<the first class>)
DocActionDecls(c) ==
    { [WellFormed(IF c = "A1" THEN S_CreateIssue ELSE S_HTTPGet, doc)
         EXCEPT !.generic = g] :
        doc \in DocStrings,
        g \in IF c = "A1" THEN { Some(<<"Req", "Resp">>) }
              ELSE { Some(<<"Req", "Resp">>), None } }

DocToolDecls(t, declared) ==
    { [name |-> None, gid |-> None, doc |-> doc, actions |-> al] :
        doc \in DocStrings, al \in ActionLists(t, declared) }

NextDeclare ==
    \/ \E c \in ClassIds, p \in {RootClass} \cup ClassIds :
          \E d \in DocActionDecls(c) : DeclareAction(c, d, p)
    \/ \E t \in ToolIds : \E d \in DocToolDecls(t, DeclaredClasses) : DeclareTool(t, d)
    \/ \E t \in ToolIds : ToolSetMetadata(t)

SpecDeclare == Init /\ [][NextDeclare]_vars

(***************************************************************************)
(* Properties.                                                             *)
(***************************************************************************)
ToolGid(t) == Val(tools[t].gid)
ToolEnum(t) == Val(tools[t].enum)
ListedBy(t) == { tools[t].actions[i] : i \in 1..Len(tools[t].actions) }
HasKey(reg, g, k) == g \in DOMAIN reg /\ k \in DOMAIN reg[g]

\* what C1 promises of tool t and its action a once setup_children(t) ran
C1_Registered(t, a) ==
    /\ classes[a].tool = tools[t].name
    /\ IsSet(classes[a].enum)
    /\ Val(classes[a].enum) =
         ToolEnum(t) \o <<95>> \o Upper(Val(GetAttr(classes, a, "name")))
    /\ HasKey(action_registry, ToolGid(t), Val(classes[a].enum))
    /\ action_registry[ToolGid(t)][Val(classes[a].enum)] = a

\* C1: after setup_children ran for a tool with name N, enum E and group g,
\* every action A of actions() has A.tool = N, A.enum = E + "_" + upper(A.name)
\* and the action store returns A for (g, A.enum).
C1_SetupRegistersEveryAction ==
    [][\A t \in ToolIds :
         (setup_children(t) /\ ~SetupChildrenRun(t).raised)
            => \A a \in ListedBy(t) : C1_Registered(t, a)']_vars

\* C2: over any series of schema() calls on an Action type, the document is
\* generated at most once and every call returns that one document object.
C2_SchemaMemoized ==
    \A c \in ClassIds :
       /\ generated[c] <= 1
       /\ Cardinality(returned[c]) <= 1
       /\ (generated[c] = 1 => returned[c] = {<<c, 1>>})

\* a class whose schema() has generated its document and returned it, and
\* would return it again
C2_Witness ==
    \E c \in ClassIds :
       /\ generated[c] = 1
       /\ returned[c] = {<<c, 1>>}
       /\ ENABLED schema(c)
       /\ SchemaRun(c).ret = classes[c].schema

\* the key setup_children(t) stores child action a under, when a has a name
ActionKey(t, a) ==
    NamespacedEnum(ToolEnum(t), Val(GetAttr(classes, a, "name")))

\* C3: an insertion under a key that another definition occupies fails with
\* an error and leaves the existing entry in place (tool store: register;
\* action store: setup_children).
C3_CollisionFailsLoudly ==
    [][\A t \in ToolIds :
         /\ (/\ register(t)
             /\ HasKey(tool_registry, ToolGid(t), ToolEnum(t))
             /\ tool_registry[ToolGid(t)][ToolEnum(t)].cls # t)
               => tool_registry' = tool_registry
         /\ (/\ setup_children(t)
             /\ \E a \in ListedBy(t) :
                  /\ IsSet(GetAttr(classes, a, "name"))
                  /\ HasKey(action_registry, ToolGid(t), ActionKey(t, a))
                  /\ action_registry[ToolGid(t)][ActionKey(t, a)] # a)
               => /\ SetupChildrenRun(t).raised
                  /\ action_registry' = action_registry]_vars

C9_ToolAssignedOnce ==
    \A c \in ClassIds :
       /\ tool_writes[c] <= 1
       /\ tool_writes[c] = 0 => ~IsSet(classes[c].tool)

\* C10: no key of the three stores is ever removed, and a key keeps the
\* definition it was first given.
C10_WriteOncePerKey ==
    [][/\ \A g \in DOMAIN tool_registry : \A k \in DOMAIN tool_registry[g] :
            HasKey(tool_registry', g, k)
              /\ tool_registry'[g][k] = tool_registry[g][k]
       /\ \A g \in DOMAIN action_registry : \A k \in DOMAIN action_registry[g] :
            HasKey(action_registry', g, k)
              /\ action_registry'[g][k] = action_registry[g][k]
       /\ \A g \in DOMAIN trigger_registry : \A k \in DOMAIN trigger_registry[g] :
            HasKey(trigger_registry', g, k)
              /\ trigger_registry'[g][k] = trigger_registry[g][k]]_vars

(***************************************************************************)
(* _Request.parse (lines 128-145).  The request is a mapping from keys to  *)
(* values; pydantic validates it field by field, in the order the model    *)
(* declares its fields, and reports one error per failing field, with the  *)
(* path of the field as loc.  Keys, message texts and the aggregate        *)
(* message are strings (sequences of ASCII codes).                         *)
(***************************************************************************)
\* the state the registry operations work on, which the contract helpers
\* leave alone
registry ==
    << classes, tools, triggers, tool_registry, action_registry,
       trigger_registry, instances, generated, returned, tool_writes >>

\* "a"
K_a == <<97>>
\* "b"
K_b == <<98>>
\* "c"
K_c == <<99>>
\* "n"
K_n == <<110>>
\* "x"
K_x == <<120>>
\* "z"
K_z == <<122>>

\* the texts pydantic gives its errors
\* "Field required"
Msg_missing == <<70, 105, 101, 108, 100, 32, 114, 101, 113, 117, 105, 114, 101, 100>>
\* "Input should be a valid integer, unable to parse string as an integer"
Msg_int_parsing == <<73, 110, 112, 117, 116, 32, 115, 104, 111, 117, 108, 100, 32, 98, 101, 32, 97, 32, 118, 97, 108, 105, 100, 32, 105, 110, 116, 101, 103, 101, 114, 44, 32, 117, 110, 97, 98, 108, 101, 32, 116, 111, 32, 112, 97, 114, 115, 101, 32, 115, 116, 114, 105, 110, 103, 32, 97, 115, 32, 97, 110, 32, 105, 110, 116, 101, 103, 101, 114>>
\* "Input should be a valid integer"
Msg_int_type == <<73, 110, 112, 117, 116, 32, 115, 104, 111, 117, 108, 100, 32, 98, 101, 32, 97, 32, 118, 97, 108, 105, 100, 32, 105, 110, 116, 101, 103, 101, 114>>
\* "Input should be a valid string"
Msg_string_type == <<73, 110, 112, 117, 116, 32, 115, 104, 111, 117, 108, 100, 32, 98, 101, 32, 97, 32, 118, 97, 108, 105, 100, 32, 115, 116, 114, 105, 110, 103>>
\* "Input should be a valid dictionary or instance of Inner"
Msg_model_type == <<73, 110, 112, 117, 116, 32, 115, 104, 111, 117, 108, 100, 32, 98, 101, 32, 97, 32, 118, 97, 108, 105, 100, 32, 100, 105, 99, 116, 105, 111, 110, 97, 114, 121, 32, 111, 114, 32, 105, 110, 115, 116, 97, 110, 99, 101, 32, 111, 102, 32, 73, 110, 110, 101, 114>>

\* the literals of _Request.parse
\* "Invalid request data provided"
P_Header == <<73, 110, 118, 97, 108, 105, 100, 32, 114, 101, 113, 117, 101, 115, 116, 32, 100, 97, 116, 97, 32, 112, 114, 111, 118, 105, 100, 101, 100>>
\* "\n- "
P_LineSep == <<10, 45, 32>>
\* "Following fields are missing: "
P_Following == <<70, 111, 108, 108, 111, 119, 105, 110, 103, 32, 102, 105, 101, 108, 100, 115, 32, 97, 114, 101, 32, 109, 105, 115, 115, 105, 110, 103, 58, 32>>
\* " on parameter `"
P_OnParameter == <<32, 111, 110, 32, 112, 97, 114, 97, 109, 101, 116, 101, 114, 32, 96>>
\* "`"
P_Backtick == <<96>>
\* "."
P_Dot == <<46>>
\* "'"
P_Quote == <<39>>
\* ", "
P_Comma == <<44, 32>>
\* "{"
P_Open == <<123>>
\* "}"
P_Close == <<125>>

\* values of a request: an int, a str that is no number, or a dict whose
\* content is a mapping again
IntV == [t |-> "int", d |-> EmptyMap]
StrV == [t |-> "str", d |-> EmptyMap]
DictV(d) == [t |-> "dict", d |-> d]

\* all mappings from some of the keys to the values
Mappings(keys, values) == UNION { [S -> values] : S \in SUBSET keys }

RequestValues == {IntV, StrV} \cup { DictV(d) : d \in Mappings({K_x}, {IntV, StrV}) }

\* a field of a pydantic model: name, annotation, and whether it has no default
FieldSpec(name, type, required) ==
    [name |-> name, type |-> type, required |-> required]

\* the request models:
\*   class AB(BaseModel):    a: int; b: str
\*   class ACN(BaseModel):   a: int; c: int = 0; n: Inner
\*   class Inner(BaseModel): x: int
ModelFields(m) ==
    CASE m = "AB"    -> << FieldSpec(K_a, "int", TRUE), FieldSpec(K_b, "str", TRUE) >>
      [] m = "ACN"   -> << FieldSpec(K_a, "int", TRUE), FieldSpec(K_c, "int", FALSE),
                           FieldSpec(K_n, "Inner", TRUE) >>
      [] m = "Inner" -> << FieldSpec(K_x, "int", TRUE) >>

RequestModels == {"AB", "ACN"}

IsModelType(type) == type \in {"Inner"}

\* the keys a request for the model may carry: its fields, and for the first
\* model a key that is no field (pydantic ignores it)
RequestKeys(m) ==
    { ModelFields(m)[i].name : i \in DOMAIN ModelFields(m) }
       \cup (IF m = "AB" THEN {K_z} ELSE {})

Requests(m) == Mappings(RequestKeys(m), RequestValues)

\* one entry of pydantic.ValidationError.errors()
ErrorDetails(type, loc, msg) == [type |-> type, loc |-> loc, msg |-> msg]

RECURSIVE ValidateFields(_, _, _, _)
\* validation of one value against an annotation
ValidateValue(type, v, loc) ==
    IF IsModelType(type)
    THEN IF v.t = "dict"
         THEN ValidateFields(type, v.d, loc, 1)
         ELSE << ErrorDetails("model_type", loc, Msg_model_type) >>
    ELSE IF type = "int"
         THEN CASE v.t = "int" -> << >>
                [] v.t = "str" -> << ErrorDetails("int_parsing", loc, Msg_int_parsing) >>
                [] OTHER       -> << ErrorDetails("int_type", loc, Msg_int_type) >>
         ELSE IF v.t = "str"
              THEN << >>
              ELSE << ErrorDetails("string_type", loc, Msg_string_type) >>

\* validation of one field of a model against the data given for the model
ValidateField(f, data, loc) ==
    IF f.name \in DOMAIN data
    THEN ValidateValue(f.type, data[f.name], Append(loc, f.name))
    ELSE IF f.required
         THEN << ErrorDetails("missing", Append(loc, f.name), Msg_missing) >>
         ELSE << >>

\* the errors of fields i.. of model m, in the order of the fields
ValidateFields(m, data, loc, i) ==
    IF i > Len(ModelFields(m))
    THEN << >>
    ELSE ValidateField(ModelFields(m)[i], data, loc)
            \o ValidateFields(m, data, loc, i + 1)

\* self.model(**request): the errors pydantic raises with (none: an instance)
ModelValidate(m, request) == ValidateFields(m, request, << >>, 1)

\* the instance self.model(**request) builds from valid data: the fields that
\* were given; a field left out keeps its default
ModelInstance(m, request) ==
    [ k \in { ModelFields(m)[i].name : i \in DOMAIN ModelFields(m) }
              \cap DOMAIN request |-> request[k] ]

RECURSIVE JoinStr(_, _)
\* sep.join(strings)
JoinStr(strings, sep) ==
    IF Len(strings) = 0 THEN << >>
    ELSE IF Len(strings) = 1 THEN strings[1]
    ELSE strings[1] \o sep \o JoinStr(Tail(strings), sep)

\* ".".join(map(str, error["loc"]))
Param(loc) == JoinStr(loc, P_Dot)

\* the body of the loop over the errors with the "continue" left out: a
\* missing field is also reported as a line of its own
ParseCollect_NoContinue(error, acc) ==
    [missing |-> IF error.type = "missing"
                 THEN Append(acc.missing, Param(error.loc))
                 ELSE acc.missing,
     others  |-> Append(acc.others,
                        error.msg \o P_OnParameter \o Param(error.loc) \o P_Backtick)]

\* the body of the loop over the errors (lines 137-141)
ParseCollect(error, acc) ==
    IF error.type = "missing"
    THEN [acc EXCEPT !.missing = Append(acc.missing, Param(error.loc))]
    ELSE [acc EXCEPT !.others =
             Append(acc.others,
                    error.msg \o P_OnParameter \o Param(error.loc) \o P_Backtick)]

RECURSIVE ParseLoop(_, _)
\* the loop over e.errors(), from the lists acc
ParseLoop(errors, acc) ==
    IF Len(errors) = 0 THEN acc
    ELSE ParseLoop(Tail(errors), ParseCollect(Head(errors), acc))

\* missing = [] and others = [""] (lines 134-135), then the loop
ParseLists(errors) == ParseLoop(errors, [missing |-> << >>, others |-> << << >> >>])

\* set(missing)
SetOf(list) == { list[i] : i \in DOMAIN list }

\* the orders in which iteration can visit the members of a Python set
Orders(S) ==
    { o \in [1..Cardinality(S) -> S] :
        \A i, j \in 1..Cardinality(S) : o[i] = o[j] => i = j }

\* repr of a non-empty set of str, its members visited in the given order
SetRepr(order) ==
    P_Open
      \o JoinStr([i \in DOMAIN order |-> P_Quote \o order[i] \o P_Quote], P_Comma)
      \o P_Close

\* the message of the ValueError (lines 133, 142-144)
ParseMessage(errors, order) ==
    LET lists == ParseLists(errors) IN
    P_Header
      \o (IF Len(lists.missing) > 0
          THEN P_LineSep \o P_Following \o SetRepr(order)
          ELSE << >>)
      \o JoinStr(lists.others, P_LineSep)

\* what a call ended with: a returned instance or a raised ValueError
Returned(value) == [kind |-> "return", value |-> value, message |-> << >>]
Raised(message) == [kind |-> "raise", value |-> EmptyMap, message |-> message]

\* a call of _Request(model).parse(request) about to run
ParseCalls ==
    { [pc |-> "ready", model |-> m, request |-> r, outcome |-> << >>] :
        m \in RequestModels, r \in Requests("AB") \cup Requests("ACN") }

InitParse ==
    /\ InitRegistry
    /\ compile_call = Idle
    /\ id_call = Idle
    /\ threads = NoThreads
    /\ parse_call \in { c \in ParseCalls : c.request \in Requests(c.model) }

\* _Request.parse (lines 128-145)
parse ==
    /\ parse_call.pc = "ready"
    /\ LET errors == ModelValidate(parse_call.model, parse_call.request) IN
       IF Len(errors) = 0
       THEN parse_call' =
               [parse_call EXCEPT
                  !.pc = "done",
                  !.outcome = << Returned(ModelInstance(parse_call.model,
                                                        parse_call.request)) >>]
       ELSE \E order \in Orders(SetOf(ParseLists(errors).missing)) :
               parse_call' =
                  [parse_call EXCEPT
                     !.pc = "done",
                     !.outcome = << Raised(ParseMessage(errors, order)) >>]
    /\ UNCHANGED << registry, compile_call, id_call, threads >>

NextParse == parse

SpecParse == InitParse /\ [][NextParse]_vars

(***************************************************************************)
(* Properties of _Request.parse.                                           *)
(***************************************************************************)
\* the positions of s at which an occurrence of sep starts
Occurrences(s, sep) ==
    { i \in 1..(Len(s) - Len(sep) + 1) : SubSeq(s, i, i + Len(sep) - 1) = sep }

\* s.split(sep), for a separator whose occurrences cannot overlap: piece k
\* lies between the (k-1)-th and the k-th occurrence
Split(s, sep) ==
    LET occ == Occurrences(s, sep)
        nth(k) == CHOOSE i \in occ : Cardinality({ j \in occ : j < i }) = k - 1
        from(k) == IF k = 1 THEN 1 ELSE nth(k - 1) + Len(sep)
        to(k) == IF k = Cardinality(occ) + 1 THEN Len(s) ELSE nth(k) - 1
    IN [k \in 1..(Cardinality(occ) + 1) |-> SubSeq(s, from(k), to(k))]

\* the errors of a list that are (not) of type "missing"
MissingErrors(errors) == SelectSeq(errors, LAMBDA e : e.type = "missing")
OtherErrors(errors) == SelectSeq(errors, LAMBDA e : e.type # "missing")

\* the line an error other than a missing field is reported with
ErrorLine(e) == e.msg \o P_OnParameter \o Param(e.loc) \o P_Backtick

\* the lines that report the fields of the given missing-field errors as one set
MissingLines(missing) ==
    { P_Following \o SetRepr(o) :
        o \in Orders({ Param(missing[i].loc) : i \in DOMAIN missing }) }

\* C5: a parse call either returns a typed instance (valid input) or raises
\* exactly one error; the lines of its message, after the header, are one
\* line with the set of all missing fields (when there are any) and then, for
\* each other validation error, exactly one line "{msg} on parameter {path}".
C5_ParseReportsEveryError ==
    parse_call.pc = "done" =>
       LET errors == ModelValidate(parse_call.model, parse_call.request)
           missing == MissingErrors(errors)
           others == OtherErrors(errors)
           out == parse_call.outcome
       IN /\ Len(out) = 1
          /\ Len(errors) = 0 =>
               /\ out[1].kind = "return"
               /\ \A i \in DOMAIN ModelFields(parse_call.model) :
                    LET f == ModelFields(parse_call.model)[i] IN
                    f.required => /\ f.name \in DOMAIN out[1].value
                                  /\ out[1].value[f.name] = parse_call.request[f.name]
          /\ Len(errors) > 0 =>
               /\ out[1].kind = "raise"
               /\ LET lines == Split(out[1].message, P_LineSep)
                      first == IF Len(missing) > 0 THEN 2 ELSE 1
                  IN /\ lines[1] = P_Header
                     /\ Len(lines) = first + Len(others)
                     /\ Len(missing) > 0 => lines[2] \in MissingLines(missing)
                     /\ \A k \in DOMAIN others :
                          lines[first + k] = ErrorLine(others[k])

\* "Invalid request data provided\n- Following fields are missing: {'a', 'b'}"
C5_MessageAB == <<73, 110, 118, 97, 108, 105, 100, 32, 114, 101, 113, 117, 101, 115, 116, 32, 100, 97, 116, 97, 32, 112, 114, 111, 118, 105, 100, 101, 100, 10, 45, 32, 70, 111, 108, 108, 111, 119, 105, 110, 103, 32, 102, 105, 101, 108, 100, 115, 32, 97, 114, 101, 32, 109, 105, 115, 115, 105, 110, 103, 58, 32, 123, 39, 97, 39, 44, 32, 39, 98, 39, 125>>
\* the same with the set visited in the other order
C5_MessageBA == <<73, 110, 118, 97, 108, 105, 100, 32, 114, 101, 113, 117, 101, 115, 116, 32, 100, 97, 116, 97, 32, 112, 114, 111, 118, 105, 100, 101, 100, 10, 45, 32, 70, 111, 108, 108, 111, 119, 105, 110, 103, 32, 102, 105, 101, 108, 100, 115, 32, 97, 114, 101, 32, 109, 105, 115, 115, 105, 110, 103, 58, 32, 123, 39, 98, 39, 44, 32, 39, 97, 39, 125>>

\* parsing {} against the model that requires a and b has raised, and the
\* message reports both as missing
C5_Witness ==
    /\ parse_call.pc = "done"
    /\ parse_call.model = "AB"
    /\ parse_call.request = EmptyMap
    /\ parse_call.outcome[1].kind = "raise"
    /\ parse_call.outcome[1].message \in {C5_MessageAB, C5_MessageBA}

\* a call that has raised with a missing field and two other errors, one of
\* them inside the nested model
C5_WitnessMixed ==
    /\ parse_call.pc = "done"
    /\ parse_call.model = "ACN"
    /\ parse_call.request = (K_c :> StrV) @@ (K_n :> DictV(K_x :> StrV))
    /\ parse_call.outcome[1].kind = "raise"
    /\ Len(Split(parse_call.outcome[1].message, P_LineSep)) = 4

(***************************************************************************)
(* The schema side of the contract helpers: _Request.schema (lines 90-126) *)
(* and _Response.wrap / _Response.schema (lines 156-174).  A JSON object   *)
(* is a function from keys to values, a JSON list a sequence, a JSON       *)
(* string a string; the value of a "default" key is a sequence of length 0 *)
(* (null) or 1.                                                            *)
(***************************************************************************)
\* d.get(k, default)
Get(d, k, default) == IF k \in DOMAIN d THEN d[k] ELSE default
\* del d[k]
Del(d, k) == [x \in (DOMAIN d) \ {k} |-> d[x]]
\* d.update(e)
Update(d, e) ==
    [x \in (DOMAIN d) \cup (DOMAIN e) |-> IF x \in DOMAIN e THEN e[x] ELSE d[x]]

\* a field of a contract model.  kind is its annotation: "int", "str",
\* "opt_str" (Optional[str] with default None), "enum" (the enum Color) or
\* "model" (the model Inner); default tells whether it has a default value
FieldDecl(name, alias, kind, description, file_readable, default) ==
    [name |-> name, alias |-> alias, kind |-> kind, description |-> description,
     file_readable |-> file_readable, default |-> default]

\* the fields the contract models are made of:
\*   x: int
\*   path: str = Field(..., description="Input file", file_readable=True)
\*   data: str = Field(..., file_readable=True)
\*   upload: Optional[str] = Field(None, description="Attachment", file_readable=True)
\*   color: Color = Field(..., description="Paint")
\*   shade: Color = Color.red
\*   tone: Color
\*   error: int
\*   inner: Inner
\*   y: int = Field(..., alias="yId")
\*   pick: Color = Field(..., description="Pick", file_readable=True)
FieldCatalog ==
    << FieldDecl("x", None, "int", None, FALSE, FALSE),
       FieldDecl("path", None, "str", Some("Input file"), TRUE, FALSE),
       FieldDecl("data", None, "str", None, TRUE, FALSE),
       FieldDecl("upload", None, "opt_str", Some("Attachment"), TRUE, TRUE),
       FieldDecl("color", None, "enum", Some("Paint"), FALSE, FALSE),
       FieldDecl("shade", None, "enum", None, FALSE, TRUE),
       FieldDecl("tone", None, "enum", None, FALSE, FALSE),
       FieldDecl("error", None, "int", None, FALSE, FALSE),
       FieldDecl("inner", None, "model", None, FALSE, FALSE),
       FieldDecl("y", Some("yId"), "int", None, FALSE, FALSE),
       FieldDecl("pick", None, "enum", Some("Pick"), TRUE, FALSE) >>

FieldNames == { FieldCatalog[i].name : i \in DOMAIN FieldCatalog }

\* a contract model: a class name and some of the fields, in catalogue order
ContractModels ==
    { [name |-> "Payload",
       fields |-> SelectSeq(FieldCatalog, LAMBDA f : f.name \in S)] :
        S \in SUBSET FieldNames }

\* the key a field has in the schema: by_alias=True
PropKey(f) == IF IsSet(f.alias) THEN Val(f.alias) ELSE f.name

\* the title pydantic derives from a field name
FieldTitle(name) ==
    CASE name = "x" -> "X"
      [] name = "path" -> "Path"
      [] name = "data" -> "Data"
      [] name = "upload" -> "Upload"
      [] name = "error" -> "Error"
      [] name = "successful" -> "Successful"
      [] name = "y" -> "Yid"
      [] OTHER -> name

\* the shared definitions pydantic emits for the types fields refer to
Definitions ==
    [ Color |-> [enum |-> << "red", "green" >>, title |-> "Color", type |-> "string"],
      Inner |-> [properties |-> [x |-> [title |-> "X", type |-> "integer"]],
                 required |-> << "x" >>, title |-> "Inner", type |-> "object"] ]

RefPrefix == "#/$defs/"
RefTo(def) == [ r \in {"$ref"} |-> RefPrefix \o def ]
\* the definition a reference points to
RefName(ref) == CHOOSE n \in DOMAIN Definitions : RefPrefix \o n = ref

\* the definition a field's annotation refers to, if any
FieldDef(f) ==
    CASE f.kind = "enum" -> Some("Color")
      [] f.kind = "model" -> Some("Inner")
      [] OTHER -> None

\* the keys a field adds beside its type: description, the extra
\* file_readable, and a default
FieldExtras(f) ==
    (IF IsSet(f.description) THEN [description |-> Val(f.description)] ELSE EmptyMap)
       @@ (IF f.file_readable THEN [file_readable |-> TRUE] ELSE EmptyMap)
       @@ (IF f.default
           THEN [default |-> IF f.kind = "enum" THEN << "red" >> ELSE << >>]
           ELSE EmptyMap)

\* the schema pydantic emits for one field: a field of a referenced type is
\* the bare reference, or, with keys beside it, a single-branch allOf
FieldSchema(f) ==
    IF IsSet(FieldDef(f))
    THEN IF DOMAIN FieldExtras(f) = {}
         THEN RefTo(Val(FieldDef(f)))
         ELSE [allOf |-> << RefTo(Val(FieldDef(f))) >>] @@ FieldExtras(f)
    ELSE (CASE f.kind = "int" -> [type |-> "integer"]
            [] f.kind = "str" -> [type |-> "string"]
            [] f.kind = "bool" -> [type |-> "boolean"]
            [] f.kind = "opt_str" ->
                 [anyOf |-> << [type |-> "string"], [type |-> "null"] >>])
         @@ [title |-> FieldTitle(f.name)]
         @@ FieldExtras(f)

\* model.model_json_schema(by_alias=True) of a model with the given class
\* name and fields (lines 92, 172)
ModelJsonSchema(name, fields) ==
    LET idx == DOMAIN fields
        required == SelectSeq(fields, LAMBDA f : ~f.default)
        defs == { Val(FieldDef(fields[i])) : i \in { j \in idx : IsSet(FieldDef(fields[j])) } }
    IN [title |-> name, type |-> "object"]
       @@ [ p \in {"properties"} |->
              [ k \in { PropKey(fields[i]) : i \in idx } |->
                  FieldSchema(fields[CHOOSE i \in idx : PropKey(fields[i]) = k]) ] ]
       @@ (IF Len(required) > 0
           THEN [required |-> [i \in DOMAIN required |-> PropKey(required[i])]]
           ELSE EmptyMap)
       @@ (IF defs # {}
           THEN [ d \in {"$defs"} |-> [n \in defs |-> Definitions[n]] ]
           ELSE EmptyMap)

RECURSIVE Deref(_, _)
\* jsonref.replace_refs on one schema object: a reference object is replaced
\* by what it points to, every other object is rebuilt member by member
Deref(s, defs) ==
    IF "$ref" \in DOMAIN s
    THEN Deref(defs[RefName(s["$ref"])], defs)
    ELSE [ k \in DOMAIN s |->
             IF k \in {"properties", "$defs"}
             THEN [n \in DOMAIN s[k] |-> Deref(s[k][n], defs)]
             ELSE IF k \in {"anyOf", "allOf", "oneOf"}
                  THEN [i \in DOMAIN s[k] |-> Deref(s[k][i], defs)]
                  ELSE s[k] ]

\* remove_json_ref (lines 34-43)
remove_json_ref(data) == Deref(data, Get(data, "$defs", EmptyMap))

\* what compiling a schema ended with: the document, or a KeyError for a key
Compiled(doc) == [kind |-> "return", doc |-> doc, key |-> ""]
KeyError(key) == [kind |-> "raise", doc |-> EmptyMap, key |-> key]

RECURSIVE ListItems(_)
\* the members of a list of str as repr shows them, separated by ", "
ListItems(l) ==
    IF Len(l) = 0 THEN ""
    ELSE IF Len(l) = 1 THEN "'" \o l[1] \o "'"
    ELSE "'" \o l[1] \o "', " \o ListItems(Tail(l))

\* repr of a list of str
ListRepr(l) == "[" \o ListItems(l) \o "]"

\* the body of the loop over the properties (lines 98-124): the property as
\* the loop leaves it, or the KeyError it raises
TransformProperty(prop) ==
    IF Get(prop, "file_readable", FALSE)
    THEN IF "type" \in DOMAIN prop
         THEN Compiled(
                Del(Put(prop, "oneOf",
                        << [type |-> prop["type"],
                            description |-> Get(prop, "description", "")],
                           [type |-> "string", format |-> "file-path",
                            description |->
                               "File path to " \o Get(prop, "description", "")] >>),
                    "type"))
         ELSE KeyError("type")
    ELSE IF /\ "allOf" \in DOMAIN prop
            /\ Len(prop["allOf"]) = 1
            /\ "enum" \in DOMAIN prop["allOf"][1]
         THEN LET merged == Update(Del(prop, "allOf"), prop["allOf"][1]) IN
              IF "description" \in DOMAIN merged
              THEN Compiled(
                     [merged EXCEPT !["description"] =
                        @ \o " Note: choose value only from following options - "
                          \o ListRepr(merged["enum"])])
              ELSE KeyError("description")
         ELSE Compiled(prop)

RECURSIVE TransformProperties(_, _, _)
\* the loop over properties.values(), in the order of the keys, from key i on
TransformProperties(properties, keys, i) ==
    IF i > Len(keys)
    THEN Compiled(properties)
    ELSE LET r == TransformProperty(properties[keys[i]]) IN
         IF r.kind = "raise"
         THEN r
         ELSE TransformProperties([properties EXCEPT ![keys[i]] = r.doc], keys, i + 1)

\* _Request.schema (lines 90-126)
RequestSchema(model) ==
    LET request == Del(remove_json_ref(ModelJsonSchema(model.name, model.fields)),
                       "$defs")
        keys == [i \in DOMAIN model.fields |-> PropKey(model.fields[i])]
        r == TransformProperties(Get(request, "properties", EmptyMap), keys, 1)
    IN IF r.kind = "raise"
       THEN r
       ELSE Compiled(Put(request, "properties", r.doc))

\* the two fields the wrapper class adds (lines 159-166)
WrapperFields ==
    << FieldDecl("successful", None, "bool",
                 Some("Whether or not the action execution was successful or not"),
                 FALSE, FALSE),
       FieldDecl("error", None, "opt_str",
                 Some("Error if any occured during the execution of the action"),
                 FALSE, TRUE) >>

\* _Response.wrap (lines 156-168): class wrapper(model); a field the wrapper
\* declares again replaces the model's field of that name, in its place
Wrap(model) ==
    LET own == { WrapperFields[i].name : i \in DOMAIN WrapperFields }
        base == { model.fields[i].name : i \in DOMAIN model.fields }
        override(f) ==
            IF f.name \in own
            THEN WrapperFields[CHOOSE i \in DOMAIN WrapperFields :
                                  WrapperFields[i].name = f.name]
            ELSE f
    IN [name |-> "wrapper",
        fields |-> [i \in DOMAIN model.fields |-> override(model.fields[i])]
                     \o SelectSeq(WrapperFields, LAMBDA f : f.name \notin base)]

\* line 173 left out: the schema keeps the title of the wrapper class
SetTitle_Wrapper(document, model) == document

\* schema["title"] = self.model.__name__ (line 173)
SetTitle(document, model) == Put(document, "title", model.name)

\* _Response.schema (lines 170-174)
ResponseSchema(model) ==
    LET wrapper == Wrap(model) IN
    remove_json_ref(SetTitle(ModelJsonSchema(wrapper.name, wrapper.fields), model))

\* a call of _Request(model).schema() or _Response(model).schema() about to run
CompileCalls ==
    { [pc |-> "ready", side |-> s, model |-> m, outcome |-> << >>] :
        s \in {"request", "response"}, m \in ContractModels }

InitCompile ==
    /\ InitRegistry
    /\ parse_call = Idle
    /\ id_call = Idle
    /\ threads = NoThreads
    /\ compile_call \in CompileCalls

request_schema ==
    /\ compile_call.pc = "ready"
    /\ compile_call.side = "request"
    /\ compile_call' = [compile_call EXCEPT
                          !.pc = "done",
                          !.outcome = << RequestSchema(compile_call.model) >>]
    /\ UNCHANGED << registry, parse_call, id_call, threads >>

response_schema ==
    /\ compile_call.pc = "ready"
    /\ compile_call.side = "response"
    /\ compile_call' = [compile_call EXCEPT
                          !.pc = "done",
                          !.outcome = << Compiled(ResponseSchema(compile_call.model)) >>]
    /\ UNCHANGED << registry, parse_call, id_call, threads >>

NextCompile == request_schema \/ response_schema

SpecCompile == InitCompile /\ [][NextCompile]_vars

(***************************************************************************)
(* Properties of the compiled schemas.                                     *)
(***************************************************************************)
\* the members of a JSON list
Members(list) == { list[i] : i \in DOMAIN list }

\* C6: the compiled response schema of a model M has as top-level properties
\* the fields of M and, beside them, successful (boolean, required) and error
\* (string or null, with a default, not required); its title is M's name.
C6_ResponseSchemaFlat ==
    (compile_call.pc = "done" /\ compile_call.side = "response") =>
       LET m == compile_call.model
           out == compile_call.outcome[1]
           doc == out.doc
       IN /\ out.kind = "return"
          /\ DOMAIN doc["properties"] =
                { PropKey(m.fields[i]) : i \in DOMAIN m.fields }
                   \cup {"successful", "error"}
          /\ doc["properties"]["successful"]["type"] = "boolean"
          /\ "successful" \in Members(doc["required"])
          /\ [type |-> "string"] \in Members(doc["properties"]["error"]["anyOf"])
          /\ "default" \in DOMAIN doc["properties"]["error"]
          /\ "error" \notin Members(doc["required"])
          /\ doc["title"] = m.name

\* the response schema of the model {x: int} has been compiled
C6_Witness ==
    /\ compile_call.pc = "done"
    /\ compile_call.side = "response"
    /\ Len(compile_call.model.fields) = 1
    /\ compile_call.model.fields[1].name = "x"
    /\ DOMAIN compile_call.outcome[1].doc["properties"] = {"x", "successful", "error"}
    /\ compile_call.outcome[1].doc["properties"]["x"]["type"] = "integer"
    /\ compile_call.outcome[1].doc["title"] = "Payload"

\* the type a field is declared with, as its schema names it
DeclaredType(f) ==
    CASE f.kind = "int" -> "integer"
      [] f.kind = "str" -> "string"
      [] f.kind = "bool" -> "boolean"
      [] OTHER -> "any"

\* C7: compiling a request schema gives every file-readable top-level property
\* a two-branch oneOf (the declared type with the property's description;
\* string / file-path with a description of its own) and no top-level type.
\* Calls that stop in the enum branch of another property are left aside.
C7_FileReadableTwoBranches ==
    (/\ compile_call.pc = "done"
     /\ compile_call.side = "request"
     /\ compile_call.outcome[1] # KeyError("description")) =>
       \A i \in DOMAIN compile_call.model.fields :
          LET f == compile_call.model.fields[i]
              out == compile_call.outcome[1]
          IN f.file_readable =>
               /\ out.kind = "return"
               /\ LET prop == out.doc["properties"][PropKey(f)] IN
                  /\ "type" \notin DOMAIN prop
                  /\ "oneOf" \in DOMAIN prop
                  /\ Len(prop["oneOf"]) = 2
                  /\ prop["oneOf"][1]["type"] = DeclaredType(f)
                  /\ prop["oneOf"][1]["description"] =
                        (IF IsSet(f.description) THEN Val(f.description) ELSE "")
                  /\ prop["oneOf"][2]["type"] = "string"
                  /\ prop["oneOf"][2]["format"] = "file-path"
                  /\ "description" \in DOMAIN prop["oneOf"][2]

\* TRUE iff a "$ref" member occurs anywhere in the schema object
RECURSIVE HasRef(_)
HasRef(s) ==
    \/ "$ref" \in DOMAIN s
    \/ \E k \in (DOMAIN s) \cap {"properties", "$defs"} :
          \E n \in DOMAIN s[k] : HasRef(s[k][n])
    \/ \E k \in (DOMAIN s) \cap {"anyOf", "allOf", "oneOf"} :
          \E i \in DOMAIN s[k] : HasRef(s[k][i])

\* C11: every schema document a contract compiles to, request or response,
\* has no "$ref" anywhere and no "$defs" block.
C11_ReferenceFree ==
    (compile_call.pc = "done" /\ compile_call.outcome[1].kind = "return") =>
       /\ ~HasRef(compile_call.outcome[1].doc)
       /\ "$defs" \notin DOMAIN compile_call.outcome[1].doc

\* the same for request contracts only
C11_RequestReferenceFree ==
    compile_call.side = "request" => C11_ReferenceFree

(***************************************************************************)
(* Properties of the derived metadata.                                     *)
(***************************************************************************)
\* str.strip of a docstring that may be absent
TrimmedDoc(doc) == IF IsSet(doc) THEN RStrip(LStrip(Val(doc))) ELSE << >>

\* what C12 promises of a description, given the docstring and display name
C12_Description(doc, display_name) ==
    IF TrimmedDoc(doc) # << >> THEN TrimmedDoc(doc) ELSE display_name

\* C12: the description of every declared Action or Tool type is its own
\* docstring, trimmed, when that is non-empty, and its display name
\* otherwise; it is never the empty string.
C12_DescriptionNeverEmpty ==
    /\ \A c \in ClassIds :
          IsSet(classes[c].description) =>
             /\ Val(classes[c].description) =
                   C12_Description(classes[c].doc, Val(classes[c].display_name))
             /\ Val(classes[c].description) # << >>
    /\ \A t \in ToolIds :
          IsSet(tools[t].description) =>
             /\ Val(tools[t].description) =
                   C12_Description(tools[t].doc, Val(tools[t].display_name))
             /\ Val(tools[t].description) # << >>

\* the same for the types whose docstring is not made of whitespace only
C12_DescriptionUnlessBlank ==
    /\ \A c \in ClassIds :
          (IsSet(classes[c].description) /\ classes[c].doc # Some(S_Blank)) =>
             /\ Val(classes[c].description) =
                   C12_Description(classes[c].doc, Val(classes[c].display_name))
             /\ Val(classes[c].description) # << >>
    /\ \A t \in ToolIds :
          (IsSet(tools[t].description) /\ tools[t].doc # Some(S_Blank)) =>
             /\ Val(tools[t].description) =
                   C12_Description(tools[t].doc, Val(tools[t].display_name))
             /\ Val(tools[t].description) # << >>

\* C13: an Action type that went through set_metadata (no declaration of the
\* model sets name itself) has name = snake_case of its own class name and
\* display_name = the humanized form of that, whatever its base is.
C13_NameFromOwnIdentity ==
    \A c \in ClassIds :
       IsSet(classes[c].name) =>
          /\ Val(classes[c].name) = Underscore(classes[c].pyname)
          /\ Val(classes[c].display_name) = Humanize(Underscore(classes[c].pyname))

\* the same for the types that derive from Action directly
C13_NameOfDirectSubclass ==
    \A c \in ClassIds :
       (IsSet(classes[c].name) /\ classes[c].parent = RootClass) =>
          /\ Val(classes[c].name) = Underscore(classes[c].pyname)
          /\ Val(classes[c].display_name) = Humanize(Underscore(classes[c].pyname))

\* TRUE iff pydantic emits the field as a single-branch allOf over an
\* enumerated type
NativeEnumAllOf(f) ==
    /\ "allOf" \in DOMAIN FieldSchema(f)
    /\ Len(FieldSchema(f)["allOf"]) = 1
    /\ IsSet(FieldDef(f))
    /\ "enum" \in DOMAIN Definitions[Val(FieldDef(f))]

\* the note the enum transform appends for a list of values
C14_Note(values) ==
    " Note: choose value only from following options - " \o ListRepr(values)

\* C14: compiling a request schema turns every top-level property that is not
\* file-readable and whose native schema is a single-branch allOf over an
\* enumerated type into the branch's content, without allOf, with a
\* description that ends with the note on the permitted values; a
\* file-readable property keeps its allOf and gets no note.  Calls that stop
\* at the missing type of a file-readable property are left aside.
C14_EnumInlined ==
    (/\ compile_call.pc = "done"
     /\ compile_call.side = "request"
     /\ compile_call.outcome[1] # KeyError("type")) =>
       \A i \in DOMAIN compile_call.model.fields :
          LET f == compile_call.model.fields[i]
              out == compile_call.outcome[1]
              def == Definitions[Val(FieldDef(f))]
          IN NativeEnumAllOf(f) =>
               /\ out.kind = "return"
               /\ LET prop == out.doc["properties"][PropKey(f)] IN
                  IF f.file_readable
                  THEN /\ "oneOf" \in DOMAIN prop
                       /\ "enum" \notin DOMAIN prop
                  ELSE /\ "allOf" \notin DOMAIN prop
                       /\ prop["enum"] = def["enum"]
                       /\ prop["type"] = def["type"]
                       /\ prop["title"] = def["title"]
                       /\ prop["description"] =
                             (IF IsSet(f.description) THEN Val(f.description) ELSE "")
                                \o C14_Note(def["enum"])

\* the same for the properties that carry a description
C14_DescribedEnumInlined ==
    (\A i \in DOMAIN compile_call.model.fields :
        LET f == compile_call.model.fields[i] IN
        (NativeEnumAllOf(f) /\ ~f.file_readable) => IsSet(f.description))
       => C14_EnumInlined

(***************************************************************************)
(* generate_app_id (lines 46-58): the MD5 digest of the name (RFC 1321),   *)
(* in hexadecimal, cut into five groups.  A 32-bit word is a pair          *)
(* <<high half, low half>> of 16-bit numbers.                              *)
(***************************************************************************)
\* one bit of the four round functions of MD5
Md5Bit(f, b, c, d) ==
    CASE f = "F" -> IF b = 1 THEN c ELSE d
      [] f = "G" -> IF d = 1 THEN b ELSE c
      [] f = "H" -> (b + c + d) % 2
      [] f = "I" -> (c + (IF b = 1 \/ d = 0 THEN 1 ELSE 0)) % 2

RECURSIVE Md5Bits(_, _, _, _, _)
\* a round function on the n low bits of three numbers
Md5Bits(f, b, c, d, n) ==
    IF n = 0 THEN 0
    ELSE Md5Bit(f, b % 2, c % 2, d % 2)
            + (2 * Md5Bits(f, b \div 2, c \div 2, d \div 2, n - 1))

\* a round function on three words
Md5Mix(f, b, c, d) ==
    << Md5Bits(f, b[1], c[1], d[1], 16), Md5Bits(f, b[2], c[2], d[2], 16) >>

\* addition modulo 2^32
Add32(x, y) ==
    << (x[1] + y[1] + ((x[2] + y[2]) \div 65536)) % 65536, (x[2] + y[2]) % 65536 >>

\* rotation to the left by s bits, 0 <= s < 16
RotLeftShort(x, s) ==
    << ((x[1] * (2^s)) % 65536) + (x[2] \div (2^(16 - s))),
       ((x[2] * (2^s)) % 65536) + (x[1] \div (2^(16 - s))) >>

\* rotation to the left by s bits, 0 <= s < 32
RotLeft(x, s) ==
    IF s >= 16 THEN RotLeftShort(<< x[2], x[1] >>, s - 16) ELSE RotLeftShort(x, s)

\* floor(2^32 * abs(sin(i))) for i = 1..64
Md5K ==
    << <<55146, 42104>>, <<59591, 46934>>, <<9248, 28891>>, <<49597, 52974>>,
       <<62844, 4015>>, <<18311, 50730>>, <<43056, 17939>>, <<64838, 38145>>,
       <<27008, 39128>>, <<35652, 63407>>, <<65535, 23473>>, <<35164, 55230>>,
       <<27536, 4386>>, <<64920, 29075>>, <<42617, 17294>>, <<18868, 2081>>,
       <<63006, 9570>>, <<49216, 45888>>, <<9822, 23121>>, <<59830, 51114>>,
       <<54831, 4189>>, <<580, 5203>>, <<55457, 59009>>, <<59347, 64456>>,
       <<8673, 52710>>, <<49975, 2006>>, <<62677, 3463>>, <<17754, 5357>>,
       <<43491, 59653>>, <<64751, 41976>>, <<26479, 729>>, <<36138, 19594>>,
       <<65530, 14658>>, <<34673, 63105>>, <<28061, 24866>>, <<64997, 14348>>,
       <<42174, 59972>>, <<19422, 53161>>, <<63163, 19296>>, <<48831, 48240>>,
       <<10395, 32454>>, <<60065, 10234>>, <<54511, 12421>>, <<1160, 7429>>,
       <<55764, 53305>>, <<59099, 39397>>, <<8098, 31992>>, <<50348, 22117>>,
       <<62505, 8772>>, <<17194, 65431>>, <<43924, 9127>>, <<64659, 41017>>,
       <<25947, 22979>>, <<36620, 52370>>, <<65519, 62589>>, <<34180, 24017>>,
       <<28584, 32335>>, <<65068, 59104>>, <<41729, 17172>>, <<19976, 4513>>,
       <<63315, 32386>>, <<48442, 62005>>, <<10967, 53947>>, <<60294, 54161>> >>

\* the shift of each step
Md5Shift ==
    << 7, 12, 17, 22, 7, 12, 17, 22, 7, 12, 17, 22, 7, 12, 17, 22,
       5, 9, 14, 20, 5, 9, 14, 20, 5, 9, 14, 20, 5, 9, 14, 20,
       4, 11, 16, 23, 4, 11, 16, 23, 4, 11, 16, 23, 4, 11, 16, 23,
       6, 10, 15, 21, 6, 10, 15, 21, 6, 10, 15, 21, 6, 10, 15, 21 >>

\* the initial state A, B, C, D
Md5Init == << <<26437, 8961>>, <<61389, 43913>>, <<39098, 56574>>, <<4146, 21622>> >>

\* step i (from 0) of the compression function on block m
Md5Step(st, i, m) ==
    LET f == CASE i < 16 -> "F" [] i < 32 -> "G" [] i < 48 -> "H" [] OTHER -> "I"
        g == CASE i < 16 -> i
               [] i < 32 -> (5 * i + 1) % 16
               [] i < 48 -> (3 * i + 5) % 16
               [] OTHER  -> (7 * i) % 16
        sum == Add32(Add32(Add32(Md5Mix(f, st[2], st[3], st[4]), st[1]),
                           Md5K[i + 1]), m[g + 1])
    IN << st[4], Add32(st[2], RotLeft(sum, Md5Shift[i + 1])), st[2], st[3] >>

\* TRUE; evaluating it computes the state st
Computed(st) == \A k \in 1..4 : st[k][1] >= 0

RECURSIVE Md5Steps(_, _, _, _)
\* steps i .. last of the compression function, each state computed before
\* the next step starts
Md5Steps(st, i, last, m) ==
    IF i > last THEN st
    ELSE LET next == Md5Step(st, i, m) IN
         IF Computed(next) THEN Md5Steps(next, i + 1, last, m) ELSE next

\* the compression function: the state after block m, in four rounds of 16
\* steps
Md5Block(h, m) ==
    LET r1 == Md5Steps(h, 0, 15, m) IN
    IF ~Computed(r1) THEN r1 ELSE
    LET r2 == Md5Steps(r1, 16, 31, m) IN
    IF ~Computed(r2) THEN r2 ELSE
    LET r3 == Md5Steps(r2, 32, 47, m) IN
    IF ~Computed(r3) THEN r3 ELSE
    LET r == Md5Steps(r3, 48, 63, m) IN
    << Add32(h[1], r[1]), Add32(h[2], r[2]), Add32(h[3], r[3]), Add32(h[4], r[4]) >>

\* the message with its padding: 0x80, zeros up to 56 modulo 64, and the
\* length in bits as 8 bytes, low byte first (the length is below 2^24)
Md5Pad(bytes) ==
    LET bits == 8 * Len(bytes) IN
    bytes \o << 128 >>
          \o [j \in 1..((55 - Len(bytes)) % 64) |-> 0]
          \o [j \in 1..8 |-> IF j <= 3 THEN (bits \div (256^(j - 1))) % 256 ELSE 0]

\* the 16 words of block n of the padded message, low byte first
Md5Words(padded, n) ==
    [j \in 1..16 |->
       LET o == 64 * (n - 1) + 4 * (j - 1) IN
       << padded[o + 3] + (256 * padded[o + 4]), padded[o + 1] + (256 * padded[o + 2]) >>]

RECURSIVE Md5Blocks(_, _, _)
Md5Blocks(h, padded, n) ==
    IF n > Len(padded) \div 64 THEN h
    ELSE Md5Blocks(Md5Block(h, Md5Words(padded, n)), padded, n + 1)

\* hashlib.md5(bytes).digest(): 16 bytes, each word low byte first
Md5Digest(bytes) ==
    LET h == Md5Blocks(Md5Init, Md5Pad(bytes), 1) IN
    [k \in 1..16 |->
       LET w == h[((k - 1) \div 4) + 1]
           b == (k - 1) % 4
       IN CASE b = 0 -> w[2] % 256
            [] b = 1 -> w[2] \div 256
            [] b = 2 -> w[1] % 256
            [] b = 3 -> w[1] \div 256]

\* one hexadecimal digit, lower case
HexDigit(n) == IF n < 10 THEN 48 + n ELSE 87 + n

\* .hexdigest(): two digits for each byte
HexDigest(digest) ==
    [k \in 1..(2 * Len(digest)) |->
       IF k % 2 = 1 THEN HexDigit(digest[(k + 1) \div 2] \div 16)
       ELSE HexDigit(digest[k \div 2] % 16)]

\* name.encode(): the UTF-8 bytes of an ASCII string are its codes
Encode(name) == name

\* "-"
Hyphen == << 45 >>

\* the five slices with the bounds cut as given (a mis-cut last group)
HashGroups_ShortTail(hash_string) ==
    << SubSeq(hash_string, 1, 8), SubSeq(hash_string, 9, 12),
       SubSeq(hash_string, 13, 16), SubSeq(hash_string, 17, 20),
       SubSeq(hash_string, 21, 31) >>

\* hash_string[:8], [8:12], [12:16], [16:20], [20:] (lines 52-56)
HashGroups(hash_string) ==
    << SubSeq(hash_string, 1, 8), SubSeq(hash_string, 9, 12),
       SubSeq(hash_string, 13, 16), SubSeq(hash_string, 17, 20),
       SubSeq(hash_string, 21, Len(hash_string)) >>

\* generate_app_id (lines 46-58)
generate_app_id(name) ==
    JoinStr(HashGroups(HexDigest(Md5Digest(Encode(name)))), Hyphen)

\* how long the names given to generate_app_id are at most
MaxNameLen == 5
\* how many times generate_app_id is called on one name
MaxIdCalls == 2

\* "github"
S_github == <<103, 105, 116, 104, 117, 98>>

\* the characters the generated names are made of: "a" and "_"
NameAlphabet == {97, 95}

\* the names generate_app_id is called with: a tool name, and every string
\* over the alphabet, up to the bound
AppNames ==
    {S_github} \cup UNION { [1..k -> NameAlphabet] : k \in 1..MaxNameLen }

InitAppId ==
    /\ InitRegistry
    /\ parse_call = Idle
    /\ compile_call = Idle
    /\ threads = NoThreads
    /\ id_call \in { [pc |-> "called", name |-> n, results |-> << >>] : n \in AppNames }

\* one more call generate_app_id(name); its result is kept
app_id ==
    /\ id_call.pc = "called"
    /\ Len(id_call.results) < MaxIdCalls
    /\ id_call' = [id_call EXCEPT
                     !.results = Append(@, generate_app_id(id_call.name))]
    /\ UNCHANGED << registry, parse_call, compile_call, threads >>

NextAppId == app_id

SpecAppId == InitAppId /\ [][NextAppId]_vars

(***************************************************************************)
(* Properties of generate_app_id.                                          *)
(***************************************************************************)
IsHexCh(c) == (48 <= c /\ c <= 57) \/ (97 <= c /\ c <= 102)

\* C15: every call of generate_app_id on a name returns the same identifier:
\* 36 characters, five groups of 8, 4, 4, 4 and 12 hexadecimal digits
\* separated by hyphens, 32 digits in all.
C15_AppIdFormat ==
    id_call.pc = "called" =>
       \A i \in DOMAIN id_call.results :
          LET id == id_call.results[i]
              groups == Split(id, Hyphen)
          IN /\ id = id_call.results[1]
             /\ Len(id) = 36
             /\ [g \in DOMAIN groups |-> Len(groups[g])] = << 8, 4, 4, 4, 12 >>
             /\ \A g \in DOMAIN groups :
                   \A k \in DOMAIN groups[g] : IsHexCh(groups[g][k])
             /\ Cardinality({ k \in DOMAIN id : IsHexCh(id[k]) }) = 32

\* "bf215181-b514-0522-137b-3d4f6b73544a"
C15_GithubId == <<98, 102, 50, 49, 53, 49, 56, 49, 45, 98, 53, 49, 52, 45, 48, 53, 50, 50, 45, 49, 51, 55, 98, 45, 51, 100, 52, 102, 54, 98, 55, 51, 53, 52, 52, 97>>

\* generate_app_id("github") has been called twice and gave this identifier
\* both times
C15_Witness ==
    /\ id_call.pc = "called"
    /\ id_call.name = S_github
    /\ id_call.results = << C15_GithubId, C15_GithubId >>

(***************************************************************************)
(* Tool.register (lines 450-456) run by two threads at once, one for each  *)
(* tool class.  A thread is at "check" (line 454), "create" (line 455),    *)
(* "insert" (line 456) or "done"; nothing in the code keeps another thread *)
(* from running between two of these.                                      *)
(***************************************************************************)
\* the group ids the tool classes of the race are declared with (None: the
\* default, "local")
RaceGroups == { None, Some("runtime"), Some(CustomGroup) }

\* the tool classes after their class statements and set_metadata: the first
\* sets name = "GitHub", the second keeps the derived name, so that their
\* enums differ; gids as given
RaceTools(gids) ==
    [t \in ToolIds |->
       ToolSetMetadataOf(
          [NoTool EXCEPT !.state = "declared",
                         !.name = IF t = "T1" THEN Some(S_GitHub) ELSE None,
                         !.gid = gids[t]],
          ToolPyName(t))]

InitRegisterRace ==
    /\ classes = [c \in ClassIds |-> NoClass("undeclared")]
    /\ tools \in { RaceTools(gids) : gids \in [ToolIds -> RaceGroups] }
    /\ triggers = [g \in TriggerIds |-> [tool |-> None, enum |-> None]]
    /\ tool_registry = [g \in PresetGroups |-> EmptyMap]
    /\ action_registry = [g \in PresetGroups |-> EmptyMap]
    /\ trigger_registry = [g \in PresetGroups |-> EmptyMap]
    /\ instances = 0
    /\ generated = [c \in ClassIds |-> 0]
    /\ returned = [c \in ClassIds |-> {}]
    /\ tool_writes = [c \in ClassIds |-> 0]
    /\ parse_call = Idle
    /\ compile_call = Idle
    /\ id_call = Idle
    /\ threads = [t \in ToolIds |-> [pc |-> "check"]]

\* what a thread leaves alone in a step of register()
RegisterStepFrame ==
    UNCHANGED << classes, tools, triggers, action_registry, trigger_registry,
                 generated, returned, tool_writes,
                 parse_call, compile_call, id_call >>

\* line 454: if cls.gid not in tool_registry
register_check(t) ==
    /\ threads[t].pc = "check"
    /\ threads' = [threads EXCEPT ![t].pc =
                     IF Val(tools[t].gid) \notin DOMAIN tool_registry
                     THEN "create" ELSE "insert"]
    /\ UNCHANGED << tool_registry, instances >>
    /\ RegisterStepFrame

\* line 455: tool_registry[cls.gid] = {}
register_create(t) ==
    /\ threads[t].pc = "create"
    /\ tool_registry' = Put(tool_registry, Val(tools[t].gid), EmptyMap)
    /\ threads' = [threads EXCEPT ![t].pc = "insert"]
    /\ UNCHANGED instances
    /\ RegisterStepFrame

\* line 456: tool_registry[cls.gid][cls.enum] = cls()
register_insert(t) ==
    /\ threads[t].pc = "insert"
    /\ instances' = instances + 1
    /\ tool_registry' =
         RegisterInsert(tool_registry, Val(tools[t].gid), Val(tools[t].enum),
                        [cls |-> t, id |-> instances + 1])
    /\ threads' = [threads EXCEPT ![t].pc = "done"]
    /\ RegisterStepFrame

NextRegisterRace ==
    \/ \E t \in ToolIds : register_check(t)
    \/ \E t \in ToolIds : register_create(t)
    \/ \E t \in ToolIds : register_insert(t)

SpecRegisterRace == InitRegisterRace /\ [][NextRegisterRace]_vars

\* C16: once both concurrent register() calls have finished, both tools are
\* in the tool store under (gid, enum), whatever the interleaving.
C16_NoLostRegistration ==
    (\A t \in ToolIds : threads[t].pc = "done") =>
       \A t \in ToolIds :
          /\ HasKey(tool_registry, ToolGid(t), ToolEnum(t))
          /\ tool_registry[ToolGid(t)][ToolEnum(t)].cls = t

\* the same when the group of each tool exists before the calls start
C16_NoLostRegistrationInPresetGroup ==
    (\A t \in ToolIds : ToolGid(t) \in PresetGroups) => C16_NoLostRegistration

(***************************************************************************)
(* Action.schema (lines 303-308) called by several threads on one action   *)
(* class.  A caller is at "check" (line 306), "generate" (line 307),       *)
(* "return" (line 308) or "done"; nothing in the code keeps another caller *)
(* from running between two of these.                                      *)
(***************************************************************************)
SchemaCallers == {"K1", "K2", "K3"}

\* the action class the callers share
SchemaRaceClass == "A1"

\* the program before the calls: the class statement of the action, the
\* class statement of tool t listing it, and setup_children of that tool
SchemaRaceSetup(d, t) ==
    LET cs0 == ActionMetaInit(
                  [[c \in ClassIds |-> NoClass("undeclared")]
                      EXCEPT ![SchemaRaceClass] = NewClass(d, RootClass)],
                  SchemaRaceClass).cs
        tl == [RaceTools([u \in ToolIds |-> None])[t]
                  EXCEPT !.actions = << SchemaRaceClass >>]
        a == ActionLoop([raised |-> FALSE, cs |-> cs0,
                         writes |-> [c \in ClassIds |-> 0],
                         own |-> tl.actions_,
                         reg |-> EnsureGroup([g \in PresetGroups |-> EmptyMap],
                                             Val(tl.gid))],
                        tl, tl.actions)
    IN [a |-> a,
        tools |-> [RaceTools([u \in ToolIds |-> None])
                      EXCEPT ![t] = [tl EXCEPT !.actions_ = a.own]]]

InitSchemaRace ==
    /\ \E d \in DocActionDecls(SchemaRaceClass), t \in ToolIds :
         LET s == SchemaRaceSetup(d, t) IN
           /\ classes = s.a.cs
           /\ tool_writes = s.a.writes
           /\ action_registry = s.a.reg
           /\ tools = s.tools
    /\ triggers = [g \in TriggerIds |-> [tool |-> None, enum |-> None]]
    /\ tool_registry = [g \in PresetGroups |-> EmptyMap]
    /\ trigger_registry = [g \in PresetGroups |-> EmptyMap]
    /\ instances = 0
    /\ generated = [c \in ClassIds |-> 0]
    /\ returned = [c \in ClassIds |-> {}]
    /\ parse_call = Idle
    /\ compile_call = Idle
    /\ id_call = Idle
    /\ threads = [k \in SchemaCallers |-> [pc |-> "check", ret |-> None]]

\* what a caller leaves alone in a step of schema()
SchemaStepFrame ==
    UNCHANGED << tools, triggers, tool_registry, action_registry,
                 trigger_registry, instances, tool_writes,
                 parse_call, compile_call, id_call >>

\* line 306: if cls._schema is None
schema_check(k) ==
    /\ threads[k].pc = "check"
    /\ threads' = [threads EXCEPT ![k].pc =
                     IF SchemaIsNone(classes, SchemaRaceClass)
                     THEN "generate" ELSE "return"]
    /\ UNCHANGED << classes, generated, returned >>
    /\ SchemaStepFrame

\* line 307: cls._generate_schema(), which builds a new dict and assigns it
\* to cls._schema
schema_generate(k) ==
    /\ threads[k].pc = "generate"
    /\ ~GenerateSchemaRaises(classes, SchemaRaceClass)
    /\ classes' = [classes EXCEPT ![SchemaRaceClass].schema =
                     Some(SchemaDocument(classes, SchemaRaceClass,
                             << SchemaRaceClass,
                                generated[SchemaRaceClass] + 1 >>))]
    /\ generated' = [generated EXCEPT ![SchemaRaceClass] = @ + 1]
    /\ threads' = [threads EXCEPT ![k].pc = "return"]
    /\ UNCHANGED returned
    /\ SchemaStepFrame

\* line 308: return cls._schema
schema_return(k) ==
    /\ threads[k].pc = "return"
    /\ threads' = [threads EXCEPT
                     ![k] = [pc |-> "done",
                             ret |-> GetAttr(classes, SchemaRaceClass, "schema")]]
    /\ returned' = [returned EXCEPT ![SchemaRaceClass] =
                      @ \cup { Val(GetAttr(classes, SchemaRaceClass, "schema")).id }]
    /\ UNCHANGED << classes, generated >>
    /\ SchemaStepFrame

NextSchemaRace ==
    \/ \E k \in SchemaCallers : schema_check(k)
    \/ \E k \in SchemaCallers : schema_generate(k)
    \/ \E k \in SchemaCallers : schema_return(k)

SpecSchemaRace == InitSchemaRace /\ [][NextSchemaRace]_vars

\* the callers whose schema() call has returned
SchemaReturned == { k \in SchemaCallers : threads[k].pc = "done" }

\* C17: under concurrent schema() calls on one action class, every caller
\* receives the same (reference-identical) document and the document is
\* generated at most once.
C17_OneDocumentForAllCallers ==
    /\ generated[SchemaRaceClass] <= 1
    /\ \A j, k \in SchemaReturned :
          Val(threads[j].ret).id = Val(threads[k].ret).id

\* what does hold: every caller receives a document, and all the documents
\* received have the same contents
C17_SameContents ==
    \A j, k \in SchemaReturned :
       /\ IsSet(threads[j].ret)
       /\ [Val(threads[j].ret) EXCEPT !.id = << >>]
            = [Val(threads[k].ret) EXCEPT !.id = << >>]

(***************************************************************************)
(* The cached schema document against the class attributes.                *)
(***************************************************************************)
\* the action classes whose own _schema holds a document
CachedClasses ==
    { c \in ClassIds : classes[c].state = "declared" /\ IsSet(classes[c].schema) }

\* C18: whenever an action class holds a cached schema document, the
\* document's enum and appName equal the class's current enum and tool.
C18_CacheNeverStale ==
    \A c \in CachedClasses :
       /\ Val(classes[c].schema).enum = Val(GetAttr(classes, c, "enum"))
       /\ Val(classes[c].schema).appName = Val(GetAttr(classes, c, "tool"))

\* the same for classes that derive from Action directly and that one
\* setup_children at most has written
C18_CacheFreshAfterOneSetup ==
    \A c \in CachedClasses :
       (tool_writes[c] <= 1 /\ classes[c].parent = RootClass)
         => /\ Val(classes[c].schema).enum = Val(GetAttr(classes, c, "enum"))
            /\ Val(classes[c].schema).appName = Val(GetAttr(classes, c, "tool"))

(***************************************************************************)
(* The keys of the action stores against the attributes of the classes     *)
(* they hold.                                                              *)
(***************************************************************************)
\* action.enum and action.tool of a stored action class, as Tool.get's
\* caller reads them
ActionEnum(a) == Val(GetAttr(classes, a, "enum"))
ActionTool(a) == Val(GetAttr(classes, a, "tool"))

\* the tools whose _actions map exists
ToolsWithActions ==
    { t \in ToolIds : tools[t].state = "declared" /\ IsSet(tools[t].actions_) }

\* C19: every entry of the action store is filed under the enum of the class
\* it holds, and every entry of a tool's _actions is filed under the enum of
\* its class, whose tool is that tool's name.
C19_StoresAgreeWithAttributes ==
    /\ \A g \in DOMAIN action_registry : \A k \in DOMAIN action_registry[g] :
          ActionEnum(action_registry[g][k]) = k
    /\ \A t \in ToolsWithActions : \A k \in DOMAIN Val(tools[t].actions_) :
          /\ ActionEnum(Val(tools[t].actions_)[k]) = k
          /\ ActionTool(Val(tools[t].actions_)[k]) = Val(tools[t].name)

\* the same for the entries whose class one setup_children at most has
\* written
C19_StoresAgreeAfterOneSetup ==
    /\ \A g \in DOMAIN action_registry : \A k \in DOMAIN action_registry[g] :
          tool_writes[action_registry[g][k]] <= 1
            => ActionEnum(action_registry[g][k]) = k
    /\ \A t \in ToolsWithActions : \A k \in DOMAIN Val(tools[t].actions_) :
          tool_writes[Val(tools[t].actions_)[k]] <= 1
            => /\ ActionEnum(Val(tools[t].actions_)[k]) = k
               /\ ActionTool(Val(tools[t].actions_)[k]) = Val(tools[t].name)

====
